---- MODULE Spec2Model ----
(***************************************************************************)
(* Box orchestration layer of icebox (src/app/box.py): store, retrieve and *)
(* delete of encrypted sources, with the persisted retrieval-keys and      *)
(* retrieval-jobs records.  Every call a Box method makes to the backend,  *)
(* to GnuPG or to the record files is one step of the invoking process, so *)
(* that a failure or an interruption can happen between any two of them.   *)
(***************************************************************************)
EXTENDS Integers, Sequences, FiniteSets, TLC

\* ---------------------------------------------------------------- bounds
NumNames == 2       \* source names in use
MaxStores == 2      \* store invocations that reach _encrypted_names()
MaxJobs == 2        \* backend jobs some record or caller still refers to

AllNames == <<"apple", "Banana", "Cherry", "date", "Elder", "Apple">>
Names == {AllNames[i] : i \in 1..NumNames}
Procs == {1, 2}

\* ------------------------------------------------------------- constants
DATA_SUFFIX == ".data"
META_SUFFIX == ".meta"

None == <<>>        \* Python None, for keys
Absent == <<>>      \* a record file that does not exist
NoJob == 0          \* Python None, for job ids
Unbound == <<>>     \* a local variable that was never assigned
NoContent == 0      \* no content: nothing stored, nothing delivered
Garbage == -1       \* what decrypting a mismatched pair of files yields

\* ----------------------------------------------------------------- state
VARIABLES
    retrieval_keys,   \* <box>/retrieval-keys/<source>: <<data-key, meta-key>> or Absent
    retrieval_jobs,   \* <box>/retrieval-jobs/<source>: <<data-job, meta-job>> or Absent
    objects,          \* keys of the objects the backend holds
    jobs,             \* backend retrieval jobs by job id: [key, status], or Free
    uuids,            \* uuid4 values drawn so far
    tmpFiles,         \* local transient files that exist
    uploaded,         \* the content of each object of the backend
    lastStored,       \* per source: the content of its last successful store
    config_file,      \* <box>/config.yml: "absent", "partial" or "complete"
    frame,            \* per process: the running Box method, its position and locals
    obs               \* per process: what a caller or a mock observes of the invocation

records == <<retrieval_keys, retrieval_jobs>>
vars == <<retrieval_keys, retrieval_jobs, objects, jobs, uuids, tmpFiles, uploaded,
          lastStored, config_file, frame, obs>>

JobIds == 1..MaxJobs
Free == [key |-> None, status |-> "free", blob |-> <<>>]

\* the locals of a Box method before any of them is assigned
NoFrame ==
    [pc |-> "idle", op |-> "none", source |-> AllNames[1], basename |-> 0,
     data_path |-> Unbound, meta_path |-> Unbound,
     data_blob |-> <<>>, meta_blob |-> <<>>,
     data_key |-> None, meta_key |-> None,
     data_job |-> NoJob, meta_job |-> NoJob, status |-> "none"]

NoCalls == [store |-> 0, init |-> 0, finish |-> 0, delete |-> 0]

\* result: how the invocation ended; cause: what made it fail; polled: the two
\* job statuses behind the last retrieve_status; calls: the backend calls made;
\* keysAtStart, jobsAtStart: the source's records when the invocation began;
\* delivered: the content decrypt wrote to the destination; listing: the
\* result list of sources
NoObs ==
    [result |-> "none", cause |-> "none", polled |-> <<>>, calls |-> NoCalls,
     keysAtStart |-> Absent, jobsAtStart |-> Absent, delivered |-> NoContent,
     listing |-> <<>>]

\* An empty box directory, no backend object, no job, nobody calling
Empty ==
    /\ retrieval_keys = [n \in Names |-> Absent]
    /\ retrieval_jobs = [n \in Names |-> Absent]
    /\ objects = {}
    /\ jobs = [j \in JobIds |-> Free]
    /\ uuids = 0
    /\ tmpFiles = {}
    /\ uploaded = [k \in {} |-> <<>>]
    /\ lastStored = [n \in Names |-> NoContent]
    /\ frame = [p \in Procs |-> NoFrame]
    /\ obs = [p \in Procs |-> NoObs]

\* The box after a completed init
Init == Empty /\ config_file = "complete"

\* ------------------------------------------------------- record stores
\* Box.contains
contains(n) == retrieval_keys[n] # Absent

\* Box._get_retrieval_keys: (None, None) when the key file does not exist
get_retrieval_keys(n) ==
    IF retrieval_keys[n] # Absent THEN retrieval_keys[n] ELSE <<None, None>>

\* (mutant) an existing key file keeps its data key
set_retrieval_keys_Merges(n, dk, mk) ==
    [retrieval_keys EXCEPT ![n] = IF @ = Absent THEN <<dk, mk>> ELSE <<@[1], mk>>]

\* Box._set_retrieval_keys: the key files after writing source's record
set_retrieval_keys(n, dk, mk) == [retrieval_keys EXCEPT ![n] = <<dk, mk>>]

\* Box._clear_retrieval_keys: unlink if the file exists
clear_retrieval_keys(n) == [retrieval_keys EXCEPT ![n] = Absent]

\* (mutant) the job file is never found: every retrieve starts new jobs
has_retrieval_jobs_Never(n) == FALSE

\* Box._has_retrieval_jobs
has_retrieval_jobs(n) == retrieval_jobs[n] # Absent

\* Box._get_retrieval_jobs
get_retrieval_jobs(n) ==
    IF retrieval_jobs[n] # Absent THEN retrieval_jobs[n] ELSE <<NoJob, NoJob>>

\* Box._set_retrieval_jobs
set_retrieval_jobs(n, dj, mj) == [retrieval_jobs EXCEPT ![n] = <<dj, mj>>]

\* (mutant) the job file is left in place
clear_retrieval_jobs_Skipped(n) == retrieval_jobs

\* Box._clear_retrieval_jobs
clear_retrieval_jobs(n) == [retrieval_jobs EXCEPT ![n] = Absent]

\* _encrypted_names: the two names built on one uuid4
encrypted_names(u) == <<(<<u, DATA_SUFFIX>>), (<<u, META_SUFFIX>>)>>

\* --------------------------------------------------- invocation frame
\* A Box method is entered at position at: fresh locals, and the records of
\* the source as the call finds them.
Enter(p, o, n, at) ==
    /\ frame[p].pc = "idle"
    /\ frame' = [frame EXCEPT ![p] = [NoFrame EXCEPT !.pc = at, !.op = o, !.source = n]]
    /\ obs' = [obs EXCEPT ![p] = [NoObs EXCEPT !.keysAtStart = retrieval_keys[n],
                                               !.jobsAtStart = retrieval_jobs[n]]]
    /\ UNCHANGED <<records, objects, jobs, uuids, uploaded, lastStored, config_file, tmpFiles>>

\* The method returns or raises: its locals are gone.
Left(f) == [NoFrame EXCEPT !.op = f.op, !.source = f.source, !.status = f.status]

\* o, ended with res because of why
Ended(o, res, why) == [o EXCEPT !.result = res, !.cause = why]

\* o, after one more backend call of the kind what
Called(o, what) == [o EXCEPT !.calls[what] = @ + 1]

\* -------------------------------------------------------------- GnuPG
\* gpg.encrypt(src_path, key): the encrypted data and its metadata
encrypt(c) == <<(<<"data", c>>), (<<"meta", c>>)>>

\* What the file at src_path holds when store reads it: every invocation
\* stores a content of its own, so a stale delivery can be told from a fresh one.
src_content == uuids + 1

\* gpg.decrypt(data_path, meta_path, dst_path): the content written to dst
decrypt(db, mb) ==
    IF db[1] = "data" /\ mb[1] = "meta" /\ db[2] = mb[2] THEN db[2] ELSE Garbage

\* --------------------------------------------------------- Box.store
\* (mutant) the finally unlinks the data file only
StoreFinally_DataOnly(f) == tmpFiles \ {f.data_path}

\* finally of Box.store: unlink both encrypted files if they exist
StoreFinally(f) == tmpFiles \ {f.data_path, f.meta_path}

Store_Begin(p, n) ==
    /\ uuids < MaxStores
    /\ Enter(p, "store", n, "encrypt")

\* gpg.encrypt writes the two encrypted files; then _encrypted_names()
Store_Encrypt(p) ==
    LET f == frame[p] IN
    /\ f.pc = "encrypt"
    /\ tmpFiles' = tmpFiles \cup {<<p, "enc.data">>, <<p, "enc.meta">>}
    /\ uuids' = uuids + 1
    /\ frame' = [frame EXCEPT ![p] = [f EXCEPT !.pc = "store_data",
                                               !.data_path = <<p, "enc.data">>,
                                               !.meta_path = <<p, "enc.meta">>,
                                               !.data_blob = encrypt(src_content)[1],
                                               !.meta_blob = encrypt(src_content)[2],
                                               !.basename = uuids + 1]]
    /\ UNCHANGED <<records, objects, jobs, obs, uploaded, lastStored, config_file>>

\* gpg.encrypt raises, before the try block: nothing to clean, nothing wrapped
Store_EncryptFails(p) ==
    LET f == frame[p] IN
    /\ f.pc = "encrypt"
    /\ frame' = [frame EXCEPT ![p] = Left(f)]
    /\ obs' = [obs EXCEPT ![p] = Ended(@, "GpgError", "encrypt_error")]
    /\ UNCHANGED <<records, objects, jobs, uuids, uploaded, lastStored, config_file, tmpFiles>>

\* an exception inside the try block of Box.store, after ncalls more backend
\* calls: wrapped as 'Storage operation failed', then the finally
StoreFails(p, at, why, o) ==
    LET f == frame[p] IN
    /\ f.pc = at
    /\ tmpFiles' = StoreFinally(f)
    /\ frame' = [frame EXCEPT ![p] = Left(f)]
    /\ obs' = [obs EXCEPT ![p] = Ended(o, "StorageFailed", why)]
    /\ UNCHANGED <<records, objects, jobs, uuids, uploaded, lastStored, config_file>>

\* (mutant) the key record is written as soon as the data key is known
Store_Data_WritesKeys(p) ==
    LET f == frame[p]
        key == encrypted_names(f.basename)[1] IN
    /\ f.pc = "store_data"
    /\ objects' = objects \cup {key}
    /\ retrieval_keys' = [retrieval_keys EXCEPT ![f.source] = <<key, None>>]
    /\ frame' = [frame EXCEPT ![p] = [f EXCEPT !.pc = "store_meta", !.data_key = key]]
    /\ obs' = [obs EXCEPT ![p] = [@ EXCEPT !.calls["store"] = @ + 1]]
    /\ uploaded' = [k \in objects \cup {key} |-> IF k = key THEN f.data_blob ELSE uploaded[k]]
    /\ UNCHANGED <<retrieval_jobs, jobs, uuids, lastStored, config_file, tmpFiles>>

\* data_key = backend.store(data_path, data_name)
Store_Data(p) ==
    LET f == frame[p]
        key == encrypted_names(f.basename)[1] IN
    /\ f.pc = "store_data"
    /\ objects' = objects \cup {key}
    /\ uploaded' = [k \in objects \cup {key} |-> IF k = key THEN f.data_blob ELSE uploaded[k]]
    /\ frame' = [frame EXCEPT ![p] = [f EXCEPT !.pc = "store_meta", !.data_key = key]]
    /\ obs' = [obs EXCEPT ![p] = Called(@, "store")]
    /\ UNCHANGED <<records, jobs, uuids, lastStored, config_file, tmpFiles>>

Store_DataFails(p) ==
    StoreFails(p, "store_data", "backend_error", Called(obs[p], "store"))

\* meta_key = backend.store(meta_path, meta_name)
Store_Meta(p) ==
    LET f == frame[p]
        key == encrypted_names(f.basename)[2] IN
    /\ f.pc = "store_meta"
    /\ objects' = objects \cup {key}
    /\ uploaded' = [k \in objects \cup {key} |-> IF k = key THEN f.meta_blob ELSE uploaded[k]]
    /\ frame' = [frame EXCEPT ![p] = [f EXCEPT !.pc = "set_keys", !.meta_key = key]]
    /\ obs' = [obs EXCEPT ![p] = Called(@, "store")]
    /\ UNCHANGED <<records, jobs, uuids, lastStored, config_file, tmpFiles>>

Store_MetaFails(p) ==
    StoreFails(p, "store_meta", "backend_error", Called(obs[p], "store"))

\* self._set_retrieval_keys(source, data_key, meta_key), the finally, return
Store_SetKeys(p) ==
    LET f == frame[p] IN
    /\ f.pc = "set_keys"
    /\ retrieval_keys' = set_retrieval_keys(f.source, f.data_key, f.meta_key)
    /\ tmpFiles' = StoreFinally(f)
    /\ frame' = [frame EXCEPT ![p] = Left(f)]
    /\ obs' = [obs EXCEPT ![p] = Ended(@, "ok", "none")]
    /\ lastStored' = [lastStored EXCEPT ![f.source] = decrypt(f.data_blob, f.meta_blob)]
    /\ UNCHANGED <<retrieval_jobs, objects, jobs, uuids, uploaded, config_file>>

\* the key file cannot be written (mkdir or open raises)
Store_SetKeysFails(p) ==
    StoreFails(p, "set_keys", "write_error", obs[p])

StoreStep(p) ==
    \/ \E n \in Names : Store_Begin(p, n)
    \/ Store_Encrypt(p)
    \/ Store_EncryptFails(p)
    \/ Store_Data(p)
    \/ Store_DataFails(p)
    \/ Store_Meta(p)
    \/ Store_MetaFails(p)
    \/ Store_SetKeys(p)
    \/ Store_SetKeysFails(p)

\* ------------------------------------------------------------ backend
\* backend.retrieve_status(data_job, meta_job): the combined status of two
\* jobs, running if either runs, failure if either failed, success otherwise
retrieve_status(dj, mj) ==
    IF jobs[dj].status = "running" \/ jobs[mj].status = "running" THEN "running"
    ELSE IF jobs[dj].status = "failure" \/ jobs[mj].status = "failure" THEN "failure"
    ELSE "success"

FreeJobs == {j \in JobIds : jobs[j] = Free}

\* backend.retrieve_init(key, options): the id of a new running job for key
retrieve_init(key) == CHOOSE j \in FreeJobs : \A k \in FreeJobs : j <= k

\* The jobs that a record (rj) or a running method (fr) still names.  The id
\* of any other job can reach no caller any more: the backend forgets it.
Referenced(rj, fr) ==
    {rj[n][i] : n \in {m \in Names : rj[m] # Absent}, i \in 1..2}
        \cup {fr[p].data_job : p \in Procs} \cup {fr[p].meta_job : p \in Procs}

Forget(js, rj, fr) == [j \in JobIds |-> IF j \in Referenced(rj, fr) THEN js[j] ELSE Free]

\* A running job ends; it can succeed only for an object the backend holds.
JobProgress ==
    \E j \in JobIds, st \in {"success", "failure"} :
        /\ jobs[j].status = "running"
        /\ st = "success" => jobs[j].key \in objects
        /\ jobs' = [jobs EXCEPT ![j].status = st,
                                ![j].blob = IF st = "success" THEN uploaded[jobs[j].key]
                                            ELSE <<>>]
        /\ UNCHANGED <<records, objects, uuids, uploaded, lastStored, config_file, tmpFiles, frame, obs>>

\* ------------------------------------------------------ Box.retrieve
\* finally of Box.retrieve: data_path, then meta_path.  Naming a local that
\* was never assigned raises UnboundLocalError in place of the pending error.
RetrieveFinallyFiles(f) ==
    IF f.data_path = Unbound THEN tmpFiles
    ELSE IF f.meta_path = Unbound THEN tmpFiles \ {f.data_path}
    ELSE tmpFiles \ {f.data_path, f.meta_path}

RetrieveFinallyResult(f, pending) ==
    IF f.data_path = Unbound \/ f.meta_path = Unbound
    THEN "UnboundLocalError" ELSE pending

Retrieve_Begin(p, n) ==
    /\ retrieval_jobs[n] # Absent \/ Cardinality(FreeJobs) >= 2
    /\ Enter(p, "retrieve", n, "get_jobs")

\* The method ends with the pending outcome: the finally, and the locals go.
RetrieveLeaves(p, f, o, pending, why, rj) ==
    /\ tmpFiles' = RetrieveFinallyFiles(f)
    /\ frame' = [frame EXCEPT ![p] = Left(f)]
    /\ obs' = [obs EXCEPT ![p] = Ended(o, RetrieveFinallyResult(f, pending), why)]
    /\ retrieval_jobs' = rj
    /\ jobs' = Forget(jobs, rj, frame')
    /\ UNCHANGED <<retrieval_keys, objects, uuids, uploaded, lastStored, config_file>>

\* an exception inside the try block of Box.retrieve: wrapped as 'Retrieval
\* operation failed', then the finally
RetrieveFails(p, at, why, o) ==
    /\ frame[p].pc = at
    /\ RetrieveLeaves(p, frame[p], o, "RetrievalFailed", why, retrieval_jobs)

\* "Get existing jobs or start new ones": the branch on _has_retrieval_jobs
Retrieve_GetJobs(p) ==
    LET f == frame[p] IN
    /\ f.pc = "get_jobs"
    /\ frame' = [frame EXCEPT ![p] =
            IF has_retrieval_jobs(f.source)
            THEN [f EXCEPT !.pc = "status",
                           !.data_job = get_retrieval_jobs(f.source)[1],
                           !.meta_job = get_retrieval_jobs(f.source)[2]]
            ELSE [f EXCEPT !.pc = "init_data",
                           !.data_key = get_retrieval_keys(f.source)[1],
                           !.meta_key = get_retrieval_keys(f.source)[2]]]
    /\ UNCHANGED <<records, objects, jobs, uuids, uploaded, lastStored, config_file, tmpFiles, obs>>

\* data_job = backend.retrieve_init(data_key, backend_options)
Retrieve_InitData(p) ==
    LET f == frame[p] IN
    /\ f.pc = "init_data"
    /\ FreeJobs # {}
    /\ jobs' = [jobs EXCEPT ![retrieve_init(f.data_key)] =
                    [key |-> f.data_key, status |-> "running", blob |-> <<>>]]
    /\ frame' = [frame EXCEPT ![p] = [f EXCEPT !.pc = "init_meta",
                                               !.data_job = retrieve_init(f.data_key)]]
    /\ obs' = [obs EXCEPT ![p] = Called(@, "init")]
    /\ UNCHANGED <<records, objects, uuids, uploaded, lastStored, config_file, tmpFiles>>

Retrieve_InitDataFails(p) ==
    RetrieveFails(p, "init_data", "backend_error", Called(obs[p], "init"))

\* meta_job = backend.retrieve_init(meta_key, backend_options)
Retrieve_InitMeta(p) ==
    LET f == frame[p] IN
    /\ f.pc = "init_meta"
    /\ FreeJobs # {}
    /\ jobs' = [jobs EXCEPT ![retrieve_init(f.meta_key)] =
                    [key |-> f.meta_key, status |-> "running", blob |-> <<>>]]
    /\ frame' = [frame EXCEPT ![p] = [f EXCEPT !.pc = "set_jobs",
                                               !.meta_job = retrieve_init(f.meta_key)]]
    /\ obs' = [obs EXCEPT ![p] = Called(@, "init")]
    /\ UNCHANGED <<records, objects, uuids, uploaded, lastStored, config_file, tmpFiles>>

Retrieve_InitMetaFails(p) ==
    RetrieveFails(p, "init_meta", "backend_error", Called(obs[p], "init"))

\* self._set_retrieval_jobs(source, data_job, meta_job)
Retrieve_SetJobs(p) ==
    LET f == frame[p] IN
    /\ f.pc = "set_jobs"
    /\ retrieval_jobs' = set_retrieval_jobs(f.source, f.data_job, f.meta_job)
    /\ frame' = [frame EXCEPT ![p] = [f EXCEPT !.pc = "status"]]
    /\ UNCHANGED <<retrieval_keys, objects, jobs, uuids, uploaded, lastStored, config_file, tmpFiles, obs>>

\* the job file cannot be written (mkdir or open raises)
Retrieve_SetJobsFails(p) ==
    RetrieveFails(p, "set_jobs", "write_error", obs[p])

\* o, after a retrieve_status that looked at the jobs dj and mj
Polled(o, dj, mj) == [o EXCEPT !.polled = <<jobs[dj].status, jobs[mj].status>>]

\* (mutant) the loop is left while the jobs still run
Retrieve_StatusRunning_Downloads(p) ==
    LET f == frame[p] IN
    /\ f.pc = "status"
    /\ retrieve_status(f.data_job, f.meta_job) = "running"
    /\ frame' = [frame EXCEPT ![p] = [f EXCEPT !.pc = "finish_data", !.status = "running"]]
    /\ obs' = [obs EXCEPT ![p] = Polled(@, f.data_job, f.meta_job)]
    /\ UNCHANGED <<records, objects, jobs, uuids, uploaded, lastStored, config_file, tmpFiles>>

\* status = backend.retrieve_status(data_job, meta_job): still running
Retrieve_StatusRunning(p) ==
    LET f == frame[p] IN
    /\ f.pc = "status"
    /\ retrieve_status(f.data_job, f.meta_job) = "running"
    /\ frame' = [frame EXCEPT ![p] = [f EXCEPT !.pc = "sleep", !.status = "running"]]
    /\ obs' = [obs EXCEPT ![p] = Polled(@, f.data_job, f.meta_job)]
    /\ UNCHANGED <<records, objects, jobs, uuids, uploaded, lastStored, config_file, tmpFiles>>

\* time.sleep(60), then the next retrieve_status
Retrieve_Sleep(p) ==
    LET f == frame[p] IN
    /\ f.pc = "sleep"
    /\ frame' = [frame EXCEPT ![p] = [f EXCEPT !.pc = "status"]]
    /\ UNCHANGED <<records, objects, jobs, uuids, uploaded, lastStored, config_file, tmpFiles, obs>>

\* the loop ends with success: _clear_retrieval_jobs, then the downloads
Retrieve_StatusSuccess(p) ==
    LET f == frame[p] IN
    /\ f.pc = "status"
    /\ retrieve_status(f.data_job, f.meta_job) = "success"
    /\ retrieval_jobs' = clear_retrieval_jobs(f.source)
    /\ frame' = [frame EXCEPT ![p] = [f EXCEPT !.pc = "finish_data", !.status = "success"]]
    /\ obs' = [obs EXCEPT ![p] = Polled(@, f.data_job, f.meta_job)]
    /\ UNCHANGED <<retrieval_keys, objects, jobs, uuids, uploaded, lastStored, config_file, tmpFiles>>

\* (mutant) a failure status is polled again like a running one
Retrieve_StatusFailure_KeepsPolling(p) ==
    LET f == frame[p] IN
    /\ f.pc = "status"
    /\ retrieve_status(f.data_job, f.meta_job) = "failure"
    /\ frame' = [frame EXCEPT ![p] = [f EXCEPT !.pc = "sleep", !.status = "failure"]]
    /\ obs' = [obs EXCEPT ![p] = Polled(@, f.data_job, f.meta_job)]
    /\ UNCHANGED <<records, objects, jobs, uuids, uploaded, lastStored, config_file, tmpFiles>>

\* the loop ends with failure: _clear_retrieval_jobs, then
\* raise Exception('Retrieval job failed.'), the wrapping and the finally
Retrieve_StatusFailure(p) ==
    LET f == frame[p] IN
    /\ f.pc = "status"
    /\ retrieve_status(f.data_job, f.meta_job) = "failure"
    /\ RetrieveLeaves(p, [f EXCEPT !.status = "failure"],
                      Polled(obs[p], f.data_job, f.meta_job),
                      "RetrievalFailed", "job_failure",
                      clear_retrieval_jobs(f.source))

\* backend.retrieve_status raises
Retrieve_StatusFails(p) ==
    RetrieveFails(p, "status", "status_error", obs[p])

\* data_path = backend.retrieve_finish(data_job)
Retrieve_FinishData(p) ==
    LET f == frame[p] IN
    /\ f.pc = "finish_data"
    /\ tmpFiles' = tmpFiles \cup {<<p, "dl.data">>}
    /\ frame' = [frame EXCEPT ![p] = [f EXCEPT !.pc = "finish_meta",
                                               !.data_path = <<p, "dl.data">>,
                                               !.data_blob = jobs[f.data_job].blob]]
    /\ obs' = [obs EXCEPT ![p] = Called(@, "finish")]
    /\ UNCHANGED <<records, objects, jobs, uuids, uploaded, lastStored, config_file>>

Retrieve_FinishDataFails(p) ==
    RetrieveFails(p, "finish_data", "backend_error", Called(obs[p], "finish"))

\* meta_path = backend.retrieve_finish(meta_job)
Retrieve_FinishMeta(p) ==
    LET f == frame[p] IN
    /\ f.pc = "finish_meta"
    /\ tmpFiles' = tmpFiles \cup {<<p, "dl.meta">>}
    /\ frame' = [frame EXCEPT ![p] = [f EXCEPT !.pc = "decrypt",
                                               !.meta_path = <<p, "dl.meta">>,
                                               !.meta_blob = jobs[f.meta_job].blob]]
    /\ obs' = [obs EXCEPT ![p] = Called(@, "finish")]
    /\ UNCHANGED <<records, objects, jobs, uuids, uploaded, lastStored, config_file>>

Retrieve_FinishMetaFails(p) ==
    RetrieveFails(p, "finish_meta", "backend_error", Called(obs[p], "finish"))

\* self.gpg.decrypt(data_path, meta_path, dst_path), the finally, return
Retrieve_Decrypt(p) ==
    /\ frame[p].pc = "decrypt"
    /\ RetrieveLeaves(p, frame[p],
                      [obs[p] EXCEPT !.delivered = decrypt(frame[p].data_blob,
                                                           frame[p].meta_blob)],
                      "ok", "none", retrieval_jobs)

Retrieve_DecryptFails(p) ==
    RetrieveFails(p, "decrypt", "decrypt_error", obs[p])

\* (mutant) the interrupted call clears the job record on its way out
Interrupt_ClearsJobs(p) ==
    LET f == frame[p] IN
    /\ f.pc \in {"status", "sleep"}
    /\ obs' = [obs EXCEPT ![p] = [@ EXCEPT !.result = "killed", !.cause = "interrupt"]]
    /\ frame' = [frame EXCEPT ![p] = [NoFrame EXCEPT !.op = f.op, !.source = f.source,
                                                     !.status = f.status]]
    /\ retrieval_jobs' = [retrieval_jobs EXCEPT ![f.source] = Absent]
    /\ jobs' = [j \in JobIds |-> Free]
    /\ UNCHANGED <<retrieval_keys, objects, uuids, uploaded, lastStored, config_file, tmpFiles>>

\* The process is stopped in the poll loop.  A KeyboardInterrupt is no
\* Exception: the except clause is skipped and the finally runs; a kill
\* runs nothing.
Interrupt(p) ==
    LET f == frame[p] IN
    /\ f.pc \in {"status", "sleep"}
    /\ \E how \in {"KeyboardInterrupt", "killed"} :
        /\ tmpFiles' = IF how = "killed" THEN tmpFiles ELSE RetrieveFinallyFiles(f)
        /\ obs' = [obs EXCEPT ![p] =
              Ended(@, IF how = "killed" THEN how ELSE RetrieveFinallyResult(f, how),
                    "interrupt")]
    /\ frame' = [frame EXCEPT ![p] = Left(f)]
    /\ jobs' = Forget(jobs, retrieval_jobs, frame')
    /\ UNCHANGED <<records, objects, uuids, uploaded, lastStored, config_file>>

RetrieveStep(p) ==
    \/ \E n \in Names : Retrieve_Begin(p, n)
    \/ Retrieve_GetJobs(p)
    \/ Retrieve_InitData(p)
    \/ Retrieve_InitDataFails(p)
    \/ Retrieve_InitMeta(p)
    \/ Retrieve_InitMetaFails(p)
    \/ Retrieve_SetJobs(p)
    \/ Retrieve_SetJobsFails(p)
    \/ Retrieve_StatusRunning(p)
    \/ Retrieve_Sleep(p)
    \/ Retrieve_StatusSuccess(p)
    \/ Retrieve_StatusFailure(p)
    \/ Retrieve_StatusFails(p)
    \/ Retrieve_FinishData(p)
    \/ Retrieve_FinishDataFails(p)
    \/ Retrieve_FinishMeta(p)
    \/ Retrieve_FinishMetaFails(p)
    \/ Retrieve_Decrypt(p)
    \/ Retrieve_DecryptFails(p)
    \/ Interrupt(p)

\* -------------------------------------------------------- Box.delete
Delete_Begin(p, n) == Enter(p, "delete", n, "get_keys")

\* data_key, meta_key = self._get_retrieval_keys(source)
Delete_GetKeys(p) ==
    LET f == frame[p] IN
    /\ f.pc = "get_keys"
    /\ frame' = [frame EXCEPT ![p] = [f EXCEPT !.pc = "delete_data",
                                               !.data_key = get_retrieval_keys(f.source)[1],
                                               !.meta_key = get_retrieval_keys(f.source)[2]]]
    /\ UNCHANGED <<records, objects, jobs, uuids, uploaded, lastStored, config_file, tmpFiles, obs>>

\* backend.delete raises inside the try block of Box.delete: wrapped as
\* 'Delete operation failed' and raised
DeleteFails(p, at) ==
    LET f == frame[p] IN
    /\ f.pc = at
    /\ frame' = [frame EXCEPT ![p] = Left(f)]
    /\ obs' = [obs EXCEPT ![p] = Ended(Called(@, "delete"), "DeleteFailed", "backend_error")]
    /\ UNCHANGED <<records, objects, jobs, uuids, uploaded, lastStored, config_file, tmpFiles>>

\* (mutant) the key record is cleared between the two backend deletes
Delete_Data_ClearsKeys(p) ==
    LET f == frame[p] IN
    /\ f.pc = "delete_data"
    /\ objects' = objects \ {f.data_key}
    /\ uploaded' = [k \in objects \ {f.data_key} |-> uploaded[k]]
    /\ retrieval_keys' = [retrieval_keys EXCEPT ![f.source] = Absent]
    /\ frame' = [frame EXCEPT ![p] = [f EXCEPT !.pc = "delete_meta"]]
    /\ obs' = [obs EXCEPT ![p] = [@ EXCEPT !.calls["delete"] = @ + 1]]
    /\ UNCHANGED <<retrieval_jobs, jobs, uuids, lastStored, config_file, tmpFiles>>

\* backend.delete(data_key)
Delete_Data(p) ==
    LET f == frame[p] IN
    /\ f.pc = "delete_data"
    /\ objects' = objects \ {f.data_key}
    /\ uploaded' = [k \in objects \ {f.data_key} |-> uploaded[k]]
    /\ frame' = [frame EXCEPT ![p] = [f EXCEPT !.pc = "delete_meta"]]
    /\ obs' = [obs EXCEPT ![p] = Called(@, "delete")]
    /\ UNCHANGED <<records, jobs, uuids, lastStored, config_file, tmpFiles>>

Delete_DataFails(p) == DeleteFails(p, "delete_data")

\* backend.delete(meta_key), then self._clear_retrieval_keys(source), return
Delete_Meta(p) ==
    LET f == frame[p] IN
    /\ f.pc = "delete_meta"
    /\ objects' = objects \ {f.meta_key}
    /\ uploaded' = [k \in objects \ {f.meta_key} |-> uploaded[k]]
    /\ retrieval_keys' = clear_retrieval_keys(f.source)
    /\ frame' = [frame EXCEPT ![p] = Left(f)]
    /\ obs' = [obs EXCEPT ![p] = Ended(Called(@, "delete"), "ok", "none")]
    /\ UNCHANGED <<retrieval_jobs, jobs, uuids, lastStored, config_file, tmpFiles>>

Delete_MetaFails(p) == DeleteFails(p, "delete_meta")

DeleteStep(p) ==
    \/ \E n \in Names : Delete_Begin(p, n)
    \/ Delete_GetKeys(p)
    \/ Delete_Data(p)
    \/ Delete_DataFails(p)
    \/ Delete_Meta(p)
    \/ Delete_MetaFails(p)

\* -------------------------------------------------------- Box.sources
\* The characters of a file name, as code points
Code ==
    [n \in {AllNames[i] : i \in DOMAIN AllNames} |->
        CASE n = "apple"  -> <<97, 112, 112, 108, 101>>
          [] n = "Apple"  -> <<65, 112, 112, 108, 101>>
          [] n = "Banana" -> <<66, 97, 110, 97, 110, 97>>
          [] n = "Cherry" -> <<67, 104, 101, 114, 114, 121>>
          [] n = "date"   -> <<100, 97, 116, 101>>
          [] n = "Elder"  -> <<69, 108, 100, 101, 114>>]

\* str.lower on code points: A..Z become a..z
lower(cs) == [i \in DOMAIN cs |-> IF cs[i] \in 65..90 THEN cs[i] + 32 ELSE cs[i]]

\* a < b for strings: the first differing character decides, else the length
StrLess(a, b) ==
    \/ \E i \in 1..Len(a) :
          /\ i <= Len(b)
          /\ \A j \in 1..(i - 1) : a[j] = b[j]
          /\ a[i] < b[i]
    \/ /\ Len(a) < Len(b)
       /\ \A j \in 1..Len(a) : a[j] = b[j]

\* (mutant) the names are compared as they are spelled
sort_key_CaseSensitive(n) == Code[n]

\* key=lambda s: s['name'].lower()
sort_key(n) == lower(Code[n])

\* list.sort is stable: x goes behind every entry whose key is not greater
Insert(x, l) ==
    LET before == {i \in 1..Len(l) : ~StrLess(sort_key(x), sort_key(l[i]))}
        k == IF before = {} THEN 0 ELSE CHOOSE i \in before : \A j \in before : j <= i
    IN  SubSeq(l, 1, k) \o <<x>> \o SubSeq(l, k + 1, Len(l))

RECURSIVE sort(_)
sort(l) == IF l = <<>> THEN <<>> ELSE Insert(l[Len(l)], sort(SubSeq(l, 1, Len(l) - 1)))

\* the key files of the box directory
KeyFiles == {n \in DOMAIN retrieval_keys : retrieval_keys[n] # Absent}

\* for child in key_path.iterdir(): result.append(...), in directory order
Sources_Iterdir(p) ==
    /\ frame[p].pc = "idle"
    /\ \E order \in [1..Cardinality(KeyFiles) -> KeyFiles] :
         /\ \A i, j \in DOMAIN order : order[i] = order[j] => i = j
         /\ obs' = [obs EXCEPT ![p] = [NoObs EXCEPT !.listing = order]]
    /\ frame' = [frame EXCEPT ![p] = [NoFrame EXCEPT !.pc = "sort", !.op = "sources"]]
    /\ UNCHANGED <<records, objects, jobs, uuids, uploaded, lastStored, config_file, tmpFiles>>

\* result.sort(key=...); return result
Sources_Sort(p) ==
    /\ frame[p].pc = "sort"
    /\ frame' = [frame EXCEPT ![p] = Left(frame[p])]
    /\ obs' = [obs EXCEPT ![p] = Ended([@ EXCEPT !.listing = sort(@)], "ok", "none")]
    /\ UNCHANGED <<records, objects, jobs, uuids, uploaded, lastStored, config_file, tmpFiles>>

SourcesStep(p) == Sources_Iterdir(p) \/ Sources_Sort(p)

\* ----------------------------------------------------------- Box.init
\* Box.exists
exists == config_file # "absent"

InitPcs == {"init_exists", "box_init", "open", "dump"}

Init_Begin(p) ==
    /\ frame[p].pc = "idle"
    /\ frame' = [frame EXCEPT ![p] = [NoFrame EXCEPT !.pc = "init_exists", !.op = "init"]]
    /\ obs' = [obs EXCEPT ![p] = NoObs]
    /\ UNCHANGED <<records, objects, jobs, uuids, uploaded, lastStored, config_file, tmpFiles>>

\* init leaves with res because of why; the config file becomes cf
InitLeaves(p, res, why, cf) ==
    /\ frame' = [frame EXCEPT ![p] = Left(frame[p])]
    /\ obs' = [obs EXCEPT ![p] = Ended(@, res, why)]
    /\ config_file' = cf
    /\ UNCHANGED <<records, objects, jobs, uuids, uploaded, lastStored, tmpFiles>>

\* init moves on to position at; the config file becomes cf
InitGoes(p, at, cf) ==
    /\ frame' = [frame EXCEPT ![p] = [@ EXCEPT !.pc = at]]
    /\ config_file' = cf
    /\ UNCHANGED <<records, objects, jobs, uuids, uploaded, lastStored, tmpFiles, obs>>

\* if self.exists(): raise Exception('Box already initialized.')
Init_Exists(p) ==
    /\ frame[p].pc = "init_exists"
    /\ IF exists THEN InitLeaves(p, "AlreadyInitialized", "exists", config_file)
                 ELSE InitGoes(p, "box_init", config_file)

\* backend = self.backend(); backend.box_init()
Init_BoxInit(p) ==
    /\ frame[p].pc = "box_init"
    /\ InitGoes(p, "open", config_file)

Init_BoxInitFails(p) ==
    /\ frame[p].pc = "box_init"
    /\ InitLeaves(p, "Exception", "backend_error", config_file)

\* _save_config: mkdir, then open(config_file, 'w') creates the empty file
Init_Open(p) ==
    /\ frame[p].pc = "open"
    /\ InitGoes(p, "dump", "partial")

Init_OpenFails(p) ==
    /\ frame[p].pc = "open"
    /\ InitLeaves(p, "Exception", "write_error", config_file)

\* _save_config: yaml.safe_dump(self.config, f), the file is closed, return
Init_Dump(p) ==
    /\ frame[p].pc = "dump"
    /\ InitLeaves(p, "ok", "none", "complete")

\* the dump raises part way (disk full): what was written stays
Init_DumpFails(p) ==
    /\ frame[p].pc = "dump"
    /\ InitLeaves(p, "Exception", "write_error", config_file)

\* the process is killed inside init: the files stay as they are
Init_Crash(p) ==
    /\ frame[p].pc \in InitPcs
    /\ InitLeaves(p, "killed", "crash", config_file)

InitStep(p) ==
    \/ Init_Begin(p)
    \/ Init_Exists(p)
    \/ Init_BoxInit(p)
    \/ Init_BoxInitFails(p)
    \/ Init_Open(p)
    \/ Init_OpenFails(p)
    \/ Init_Dump(p)
    \/ Init_DumpFails(p)
    \/ Init_Crash(p)

\* -------------------------------------------------------- specification
\* One process at a time calls the Box: each invocation runs to its end, or
\* is interrupted, before the next one begins.
Next ==
    \/ StoreStep(1)
    \/ RetrieveStep(1)
    \/ DeleteStep(1)
    \/ JobProgress

Spec == Init /\ [][Next]_vars

\* The process that runs retrieve keeps running: every call it makes and
\* every time.sleep(60) returns.  Box.delete is left out: it writes neither
\* a job nor a Job Record, and a job may fail here for any reason.
NextLive ==
    \/ StoreStep(1)
    \/ RetrieveStep(1)
    \/ JobProgress

SpecLive == Init /\ [][NextLive]_vars /\ WF_vars(RetrieveStep(1))

\* The box from before its creation: init, and once the configuration is
\* written, the methods that need it.
Uninitialized == Empty /\ config_file = "absent"

NextInit ==
    \/ InitStep(1)
    \/ (config_file = "complete" /\ Next)

SpecInit == Uninitialized /\ [][NextInit]_vars

\* cli put: the name is refused if the box contains it, else Box.store runs
Put_Check(p, n) ==
    /\ uuids < MaxStores
    /\ IF contains(n)
       THEN /\ frame[p].pc = "idle"
            /\ frame' = [frame EXCEPT ![p] = [NoFrame EXCEPT !.op = "put", !.source = n]]
            /\ obs' = [obs EXCEPT ![p] = Ended(NoObs, "AlreadyExists", "exists")]
            /\ UNCHANGED <<records, objects, jobs, uuids, uploaded, lastStored,
                           config_file, tmpFiles>>
       ELSE Enter(p, "store", n, "encrypt")

\* Two processes put files into the box at the same time.
NextRace ==
    \E p \in Procs :
        \/ \E n \in Names : Put_Check(p, n)
        \/ Store_Encrypt(p)
        \/ Store_EncryptFails(p)
        \/ Store_Data(p)
        \/ Store_DataFails(p)
        \/ Store_Meta(p)
        \/ Store_MetaFails(p)
        \/ Store_SetKeys(p)
        \/ Store_SetKeysFails(p)

SpecRace == Init /\ [][NextRace]_vars

\* A box with any set of key files, of any spelling, listed by sources
ListNames == {AllNames[i] : i \in DOMAIN AllNames}

Listable ==
    /\ retrieval_keys \in [ListNames -> {Absent, encrypted_names(1)}]
    /\ retrieval_jobs = [n \in ListNames |-> Absent]
    /\ objects = {}
    /\ jobs = [j \in JobIds |-> Free]
    /\ uuids = 0
    /\ tmpFiles = {}
    /\ uploaded = [k \in {} |-> <<>>]
    /\ lastStored = [n \in Names |-> NoContent]
    /\ config_file = "complete"
    /\ frame = [p \in Procs |-> NoFrame]
    /\ obs = [p \in Procs |-> NoObs]

NextSources == SourcesStep(1)

SpecSources == Listable /\ [][NextSources]_vars

\* ------------------------------------------------------------- claims
\* what a formula says of a process: its frame, its observations, its source
Src(p) == frame[p].source
AtEnd(p, o) == frame[p].op = o /\ frame[p].pc = "idle"
InPoll(p) == frame[p].pc \in {"status", "sleep"}

\* C1: a retrieve that finds a Job Record for its source (persisted by an
\* earlier invocation that was interrupted) never calls retrieve_init and
\* polls exactly the persisted data and meta job ids, the record staying in
\* place; the invocation that persisted a new record called retrieve_init
\* exactly twice, once per artifact.
C1_Resumability ==
    \A p \in Procs : frame[p].op = "retrieve" =>
        IF obs[p].jobsAtStart # Absent
        THEN /\ obs[p].calls.init = 0
             /\ InPoll(p) =>
                    /\ <<frame[p].data_job, frame[p].meta_job>> = obs[p].jobsAtStart
                    /\ retrieval_jobs[Src(p)] = obs[p].jobsAtStart
        ELSE /\ obs[p].calls.init <= 2
             /\ InPoll(p) =>
                    /\ obs[p].calls.init = 2
                    /\ retrieval_jobs[Src(p)] = <<frame[p].data_job, frame[p].meta_job>>
                    /\ frame[p].data_job # frame[p].meta_job

\* a resumed retrieve is polling jobs that still run, having started none
C1_Witness ==
    \E p \in Procs :
        /\ frame[p].op = "retrieve" /\ frame[p].pc = "sleep"
        /\ obs[p].jobsAtStart # Absent /\ obs[p].keysAtStart # Absent
        /\ obs[p].calls.init = 0
        /\ frame[p].status = "running"

\* C2: the Key Record of a source is written only by the last step of a
\* store, after both Backend.store calls returned; a store that fails leaves
\* the source's record as it found it; every Key Record holds the data key
\* and the meta key of one and the same store invocation, and when the store
\* returns the backend holds both objects.
C2_KeyRecordComplete ==
    /\ \A n \in Names : retrieval_keys[n] # Absent =>
            \E u \in 1..uuids : retrieval_keys[n] = encrypted_names(u)
    /\ \A p \in Procs : frame[p].op = "store" =>
            IF frame[p].pc = "idle" /\ obs[p].result = "ok"
            THEN /\ obs[p].calls.store = 2
                 /\ retrieval_keys[Src(p)] # Absent
                 /\ retrieval_keys[Src(p)] # obs[p].keysAtStart
                 /\ {retrieval_keys[Src(p)][1], retrieval_keys[Src(p)][2]} \subseteq objects
            ELSE retrieval_keys[Src(p)] = obs[p].keysAtStart

\* a store returned successfully and its record names two stored objects
C2_Witness ==
    \E p \in Procs :
        /\ AtEnd(p, "store") /\ obs[p].result = "ok"
        /\ obs[p].keysAtStart = Absent
        /\ retrieval_keys[Src(p)] = encrypted_names(uuids)

\* C3 (as claimed): every failed retrieve of a stored source, whether the
\* jobs failed or retrieve_init, retrieve_status, retrieve_finish or decrypt
\* raised, ends as RetrievalFailed with no Job Record for the source and the
\* Key Record unchanged.
C3_FailedRetrieveClearsJobRecord ==
    \A p \in Procs :
        (AtEnd(p, "retrieve") /\ obs[p].keysAtStart # Absent /\ obs[p].cause \in
            {"job_failure", "backend_error", "status_error", "decrypt_error"}) =>
                /\ obs[p].result = "RetrievalFailed"
                /\ retrieval_jobs[Src(p)] = Absent
                /\ retrieval_keys[Src(p)] = obs[p].keysAtStart

\* C4: when the combined status is failure, retrieve clears the Job Record,
\* has called retrieve_finish not once, fails, and leaves the Key Record as
\* it was; a retrieve that starts without a Job Record reaches the poll loop
\* only after two retrieve_init calls, for the data key and the meta key of
\* the Key Record.
C4_JobFailure ==
    \A p \in Procs : frame[p].op = "retrieve" =>
        /\ frame[p].status = "failure" =>
                /\ frame[p].pc = "idle"
                /\ retrieval_jobs[Src(p)] = Absent
                /\ obs[p].calls.finish = 0
                /\ obs[p].result \notin {"ok", "none"}
                /\ retrieval_keys[Src(p)] = obs[p].keysAtStart
        /\ (InPoll(p) /\ obs[p].jobsAtStart = Absent) =>
                /\ obs[p].calls.init = 2
                /\ <<jobs[frame[p].data_job].key, jobs[frame[p].meta_job].key>>
                        = get_retrieval_keys(Src(p))

\* the data job succeeded, the meta job failed, and the retrieve has failed
C4_Witness ==
    \E p \in Procs :
        /\ AtEnd(p, "retrieve") /\ frame[p].status = "failure"
        /\ obs[p].polled = <<"success", "failure">>
        /\ obs[p].keysAtStart # Absent
        /\ retrieval_keys[Src(p)] = obs[p].keysAtStart
        /\ retrieval_jobs[Src(p)] = Absent

\* C5 (as claimed): a store of a name that has a Key Record fails with
\* AlreadyExists, calls Backend.store not once, and leaves the record as it is.
C5_StoreCollision ==
    \A p \in Procs : (frame[p].op = "store" /\ obs[p].keysAtStart # Absent) =>
        /\ obs[p].calls.store = 0
        /\ retrieval_keys[Src(p)] = obs[p].keysAtStart
        /\ frame[p].pc = "idle" => obs[p].result = "AlreadyExists"

\* C6 (as claimed): a retrieve of a name that has no Key Record fails with
\* NotFound, calls retrieve_init not once, and creates no Job Record.
C6_RetrieveNotFound ==
    \A p \in Procs : (frame[p].op = "retrieve" /\ obs[p].keysAtStart = Absent) =>
        /\ obs[p].calls.init = 0
        /\ obs[p].jobsAtStart = Absent => retrieval_jobs[Src(p)] = Absent
        /\ frame[p].pc = "idle" => obs[p].result = "NotFound"

\* C7: delete clears the Key Record only once both Backend.delete calls have
\* succeeded; while it runs, and when it fails (then always as DeleteFailed),
\* the Key Record of the source is what it was when delete began.
C7_DeleteClearsAfterBoth ==
    \A p \in Procs : frame[p].op = "delete" =>
        IF frame[p].pc = "idle" /\ obs[p].result = "ok"
        THEN /\ obs[p].calls.delete = 2
             /\ retrieval_keys[Src(p)] = Absent
        ELSE /\ retrieval_keys[Src(p)] = obs[p].keysAtStart
             /\ frame[p].pc = "idle" => obs[p].result = "DeleteFailed"

\* the data object was deleted, the meta delete failed, the record is kept
C7_Witness ==
    \E p \in Procs :
        /\ AtEnd(p, "delete") /\ obs[p].result = "DeleteFailed"
        /\ obs[p].calls.delete = 2
        /\ obs[p].keysAtStart # Absent
        /\ retrieval_keys[Src(p)] = obs[p].keysAtStart
        /\ obs[p].keysAtStart[1] \notin objects
        /\ obs[p].keysAtStart[2] \in objects

\* C8 (as claimed): after a successful delete the source is not contained,
\* and a delete of a name without a Key Record fails with NotFound and calls
\* Backend.delete not once.
C8_DeleteIdempotent ==
    \A p \in Procs : frame[p].op = "delete" =>
        /\ (frame[p].pc = "idle" /\ obs[p].result = "ok") => ~contains(Src(p))
        /\ obs[p].keysAtStart = Absent =>
                /\ obs[p].calls.delete = 0
                /\ frame[p].pc = "idle" => obs[p].result = "NotFound"

\* C9: when store has returned, by success, by a failure of the first or of
\* the second Backend.store or by a failure to write the Key Record, neither
\* encrypted file of the call exists; after a failure the Key Record of the
\* source is the one the call found.
C9_StoreCleanup ==
    \A p \in Procs : AtEnd(p, "store") =>
        /\ tmpFiles \cap {<<p, "enc.data">>, <<p, "enc.meta">>} = {}
        /\ obs[p].result # "ok" => retrieval_keys[Src(p)] = obs[p].keysAtStart

\* the second Backend.store failed: no file is left and no record was written
C9_Witness ==
    \E p \in Procs :
        /\ AtEnd(p, "store") /\ obs[p].result = "StorageFailed"
        /\ obs[p].cause = "backend_error" /\ obs[p].calls.store = 2
        /\ tmpFiles = {}
        /\ retrieval_keys[Src(p)] = Absent
        /\ encrypted_names(uuids)[1] \in objects

\* C10: in the poll loop the Job Record of the source is the pair of jobs
\* being polled and the Key Record is the one the call found; a step that
\* interrupts the loop changes no record.
C10_InterruptKeepsRecords ==
    /\ [](\A p \in Procs : (frame[p].op = "retrieve" /\ InPoll(p)) =>
            /\ retrieval_jobs[Src(p)] = <<frame[p].data_job, frame[p].meta_job>>
            /\ retrieval_keys[Src(p)] = obs[p].keysAtStart)
    /\ [][\A p \in Procs : (InPoll(p) /\ obs'[p].cause = "interrupt") =>
            /\ retrieval_jobs' = retrieval_jobs
            /\ retrieval_keys' = retrieval_keys
            /\ retrieval_jobs'[Src(p)] # Absent]_vars

\* a retrieve of a stored source was interrupted while its jobs ran
C10_Witness ==
    \E p \in Procs :
        /\ AtEnd(p, "retrieve") /\ obs[p].cause = "interrupt"
        /\ frame[p].status = "running"
        /\ obs[p].jobsAtStart = Absent
        /\ retrieval_jobs[Src(p)] # Absent
        /\ retrieval_keys[Src(p)] # Absent


\* C11: round trip.  A retrieve of a source that returns without error has
\* written to the destination the content of the most recent successful
\* store of that source.  (The code resumes the jobs of an older Job Record
\* without comparing them with the Key Record, so it can deliver the content
\* of an earlier store.)
C11_RoundTrip ==
    \A p \in Procs :
        (AtEnd(p, "retrieve") /\ obs[p].result = "ok")
            => obs[p].delivered = lastStored[Src(p)]

\* C12: init is atomic with respect to crashes.  Whenever no init is running,
\* the box is uninitialized (no config file) or initialized (complete config
\* file): a half-written config file is never what exists() finds.  (The code
\* writes the config file in place, so a crash or a write error between open
\* and the end of the dump leaves a partial file that exists.)
C12_InitAtomic ==
    (\A p \in Procs : frame[p].pc \notin InitPcs)
        => config_file \in {"absent", "complete"}

\* the list that sources returned to p: complete, without repeats, in order
C13_Listed(p) ==
    LET l == obs[p].listing IN
    /\ Len(l) = Cardinality(KeyFiles)
    /\ {l[i] : i \in DOMAIN l} = KeyFiles
    /\ \A i, j \in DOMAIN l :
          i < j => ~StrLess(lower(Code[l[j]]), lower(Code[l[i]]))
    /\ KeyFiles = {"Banana", "apple", "Cherry"} => l = <<"apple", "Banana", "Cherry">>

\* C13: sources() returns one entry for every key record present and no
\* other, in ascending order of the lower-cased name (Banana, apple, Cherry
\* are listed as apple, Banana, Cherry), and changes no persisted state.
C13_Sources ==
    /\ [](\A p \in Procs : AtEnd(p, "sources") => C13_Listed(p))
    /\ [][UNCHANGED <<records, objects, jobs, uuids, uploaded, config_file, tmpFiles>>]_vars

C13_Witness ==
    /\ AtEnd(1, "sources")
    /\ KeyFiles = {"Banana", "apple", "Cherry"}
    /\ obs[1].listing = <<"apple", "Banana", "Cherry">>

\* the error a Box method raises from its except clause
Wrapped ==
    [store |-> "StorageFailed", retrieve |-> "RetrievalFailed", delete |-> "DeleteFailed"]

\* the failures that the backend or the crypto engine raise
BoundaryFailures == {"backend_error", "status_error", "encrypt_error", "decrypt_error"}

\* C14: error propagation.  A store, retrieve or delete that ended because
\* the backend or the crypto engine raised has reported its own wrapped
\* error (StorageFailed, RetrievalFailed, DeleteFailed), at whichever step
\* the failure occurred.  (In the code an encrypt failure escapes store
\* unwrapped, and retrieve's finally replaces the wrapped error.)
C14_ErrorsWrapped ==
    \A p \in Procs :
        (/\ frame[p].pc = "idle"
         /\ frame[p].op \in DOMAIN Wrapped
         /\ obs[p].cause \in BoundaryFailures)
            => obs[p].result = Wrapped[frame[p].op]

\* p calls backend.retrieve_finish in this step
FinishCalled(p) == obs'[p].calls.finish = obs[p].calls.finish + 1

\* C15: order of the success path of retrieve.  retrieve_finish is called
\* only when the last status seen was success and the Job Record of the
\* source is cleared, first for the data job and then for the meta job;
\* decrypt is called only after both retrieve_finish calls have returned.
C15_FinishOrder ==
    [][\A p \in Procs :
        LET f == frame[p] IN
        /\ FinishCalled(p) =>
              /\ f.status = "success"
              /\ obs[p].polled = <<"success", "success">>
              /\ retrieval_jobs[f.source] = Absent
              /\ \/ f.pc = "finish_data" /\ obs[p].calls.finish = 0
                 \/ /\ f.pc = "finish_meta" /\ obs[p].calls.finish = 1
                    /\ f.data_path # Unbound
        /\ (f.pc = "decrypt" /\ frame'[p].pc # "decrypt") =>
              /\ f.status = "success"
              /\ obs[p].calls.finish = 2
              /\ f.data_path # Unbound /\ f.meta_path # Unbound
      ]_vars

C15_Witness ==
    /\ AtEnd(1, "retrieve")
    /\ obs[1].result = "ok"
    /\ obs[1].calls.finish = 2
    /\ obs[1].delivered # NoContent

\* both processes have stored the same name, each after finding it absent
BothStored ==
    /\ \A p \in Procs :
          AtEnd(p, "store") /\ obs[p].result = "ok" /\ obs[p].keysAtStart = Absent
    /\ Src(1) = Src(2)

\* C16: same-name store race.  Two concurrent stores of one name that both
\* passed the existence check have both uploaded their pair and both
\* written the Key Record: the record names one of the two pairs, and the
\* objects of the other pair are in the backend, named by no Key Record.
C16_StoreRace ==
    BothStored =>
        \E u, v \in 1..uuids :
            /\ u # v
            /\ retrieval_keys[Src(1)] = encrypted_names(u)
            /\ {encrypted_names(u)[1], encrypted_names(u)[2],
                encrypted_names(v)[1], encrypted_names(v)[2]} \subseteq objects
            /\ \A n \in Names : retrieval_keys[n] # encrypted_names(v)
            /\ \A n \in Names, i \in 1..2 :
                  retrieval_keys[n] # Absent => retrieval_keys[n][i] # encrypted_names(v)[i]

C16_Witness ==
    /\ BothStored
    /\ obs[1].calls.store = 2 /\ obs[2].calls.store = 2
    /\ Cardinality(objects) = 4
    /\ retrieval_keys[Src(1)] # Absent

\* C17: artifact pair integrity.  When store or delete has returned, with or
\* without an error, the backend holds of every store invocation both
\* objects or neither.  (The code does not undo the first backend call when
\* the second one fails.)
C17_PairIntegrity ==
    \A p \in Procs :
        (AtEnd(p, "store") \/ AtEnd(p, "delete")) =>
            \A u \in 1..uuids :
                encrypted_names(u)[1] \in objects <=> encrypted_names(u)[2] \in objects

\* the combined status of the jobs that p polls is no longer running
Settled(p) == retrieve_status(frame[p].data_job, frame[p].meta_job) # "running"

\* C18: poll-loop termination.  Once the combined status of the polled jobs
\* is success or failure, a retrieve in its poll loop leaves the loop and
\* returns.  While in the loop it polls the same two job ids; it stays in
\* the loop only on status running and goes on to the downloads only on a
\* status other than running.
C18_PollTerminates ==
    /\ \A p \in {1} : (InPoll(p) /\ Settled(p)) ~> AtEnd(p, "retrieve")
    /\ [][\A p \in Procs :
            LET f == frame[p] IN
            /\ (InPoll(p) /\ frame'[p].pc \in {"status", "sleep"}) =>
                  /\ frame'[p].data_job = f.data_job
                  /\ frame'[p].meta_job = f.meta_job
            /\ (f.pc = "status" /\ frame'[p].pc = "sleep") => ~Settled(p)
            /\ (f.pc = "status" /\ frame'[p].pc = "finish_data") => Settled(p)
            /\ (f.pc = "status" /\ Settled(p)) => ~(InPoll(p))'
         ]_vars

C18_Witness ==
    /\ AtEnd(1, "retrieve")
    /\ obs[1].polled # <<>>
    /\ "running" \notin {obs[1].polled[1], obs[1].polled[2]}
    /\ obs[1].cause \in {"none", "job_failure"}

\* C19: no orphan Job Record.  Whenever no Box method is running, a source
\* has a Job Record only if it has a Key Record.  (In the code delete never
\* removes the Job Record, and retrieve writes one for a name it was never
\* given a Key Record for.)
C19_NoOrphanJobRecord ==
    (\A p \in Procs : frame[p].pc = "idle") =>
        \A n \in Names : retrieval_jobs[n] # Absent => retrieval_keys[n] # Absent

\* C20: the Job Record matches the Key Record.  Whenever a source has both,
\* the recorded data job and meta job are the backend's jobs for the data
\* key and the meta key of its Key Record.  (In the code a Job Record
\* outlives a delete or a second store of the name.)
C20_JobRecordMatchesKeys ==
    \A n \in Names :
        (retrieval_jobs[n] # Absent /\ retrieval_keys[n] # Absent) =>
            /\ jobs[retrieval_jobs[n][1]].key = retrieval_keys[n][1]
            /\ jobs[retrieval_jobs[n][2]].key = retrieval_keys[n][2]

====
